---------------------------- MODULE Spec2Model ----------------------------
(***************************************************************************)
(* A model of stecosystems: the PyPI package abstraction                   *)
(* (stecosystems/pypi.py: Package.releases, Package.download_url,          *)
(* Package.download, Package.dependencies) and the harvesting pass         *)
(* (module-level dependencies(), duplicated in deprecated.py as            *)
(* pypi_dependencies()).                                                   *)
(*                                                                         *)
(* Text (version labels, package names, URLs) is a sequence of characters  *)
(* or of tokens, so that parsing and matching are computed, not assumed.   *)
(* The code base is Python 2 (npm.py uses urllib.urlopen, deprecated.py    *)
(* str.decode), so an int compares below a str.                            *)
(***************************************************************************)
EXTENDS Integers, Sequences, FiniteSets, TLC

VARIABLES
    info,       \* SpecRel/SpecUrl: self.info['releases'] of the Package under call
    call,       \* SpecRel/SpecUrl: the last public call made on it
    relOut,     \* SpecRel: what Package.releases returned
    urlOut,     \* SpecUrl: what Package.download_url returned
    catalog,    \* SpecHarvest: the package names the registry lists (Package.all)
    registry,   \* SpecHarvest: name -> info['releases'] the registry answers with
    file,       \* the durable cache file .deps_and_size.cache
    run,        \* the number of the harvesting pass under way
    pc,         \* where the scheduler (the thread running dependencies()) is
    exc,        \* the exception that ended the pass, if one did
    deps,       \* the in-memory cache map of dependencies()
    names,      \* package_names still to iterate
    cur,        \* package_name of the loop
    todo,       \* (version, release_date) pairs of p.releases(True, True) still to iterate
    queue,      \* the queue of the thread pool
    workers,    \* the worker threads of the pool
    submitted,  \* history: the keys handed to tp.submit in this pass, in order
    merged,     \* history: the keys done() wrote in this pass
    loaded,     \* history: the rows the cache file held when this pass read it
    prev        \* history, kept until the cache is loaded: how the pass before
                \* ended, the file rows it began from, whether it had merged

pvars == <<info, call, relOut, urlOut>>
hvars == <<catalog, registry, file, run, pc, exc, deps, names, cur, todo, queue,
           workers, submitted, merged, loaded, prev>>

VARIABLES
    jsonItem,   \* SpecJson: the item json_path is called on
    jsonPath,   \* SpecJson: the path it is called with
    jsonOut     \* SpecJson: what the call came to

VARIABLES
    tree,       \* SpecDeps: the metadata of the extracted tree dependencies reads
    depsOut,    \* SpecDeps: what Package.dependencies made of it
    sandboxed   \* SpecDeps: whether the call went to get_setup_params

VARIABLES
    req,        \* SpecNet: the request under way and what the network does to
                \* each attempt of it
    reqSt       \* SpecNet: the attempts made and what the request came to

VARIABLES
    infoIn,     \* SpecInfo: the package, the version and the extracted tree
                \* _info_path is called on
    infoOut     \* SpecInfo: the path _info_path returned

VARIABLES
    world,      \* SpecPkg: what the instance finds: the save path setting, the
                \* artifact of each version, the working directory, the
                \* folders on disk at construction
    disk,       \* SpecPkg: the extraction folders under PYPI_SAVE_PATH
    _dirs,      \* SpecPkg: self._dirs
    _cache,     \* SpecPkg: self._cache of cached_method
    fetched,    \* SpecPkg: how many times urlretrieve ran for each version
    life        \* SpecPkg: whether the instance is alive, and the disk its
                \* __del__ found

VARIABLES
    jobs,       \* SpecShare: the task of each worker thread, where its do() is
                \* and the self._dirs of its Package
    folders     \* SpecShare: the folders under PYPI_SAVE_PATH

VARIABLES
    cmdOut      \* SpecFmt: the url download chose and the extraction command
                \* it came to

jvars == <<jsonItem, jsonPath, jsonOut>>
dvars == <<tree, depsOut, sandboxed>>
rvars == <<req, reqSt>>
ivars == <<infoIn, infoOut>>
kvars == <<world, disk, _dirs, _cache, fetched, life>>
svars == <<jobs, folders>>
xvars == <<ivars, kvars, svars>>
cvars == <<cmdOut>>
nvars == <<jvars, dvars, rvars, xvars, cvars>>
vars == <<pvars, hvars, nvars>>

\* json_path not called
NoJsonOut == [raised |-> FALSE, exc |-> "uncalled", val |-> <<>>]
NoJson == jsonItem = <<>> /\ jsonPath = <<>> /\ jsonOut = NoJsonOut

\* Package.dependencies not called
NoDepsOut == [raised |-> FALSE, exc |-> "uncalled", val |-> <<>>]
NoDeps == tree = <<>> /\ depsOut = NoDepsOut /\ sandboxed = FALSE

\* no network request
NoReqSt == [pc |-> "off", attempts |-> 0, timed |-> TRUE, cause |-> "none"]
NoReq == req = <<>> /\ reqSt = NoReqSt

\* _info_path not called
NoInfoOut == [called |-> FALSE, some |-> FALSE, val |-> <<>>]
NoInfo == infoIn = <<>> /\ infoOut = NoInfoOut

\* no Package instance with a disk
NoPkg ==
    /\ world = <<>> /\ disk = <<>> /\ _dirs = <<>> /\ _cache = {}
    /\ fetched = <<>> /\ life = <<>>

\* the variables of the specifications of one Package instance at rest
\* no worker thread with a folder
NoShare == jobs = <<>> /\ folders = {}

NoInstance == NoInfo /\ NoPkg /\ NoShare

\* download not called for its command
NoCmdOut == [called |-> FALSE, url |-> [some |-> FALSE, val |-> <<>>],
             out |-> [raised |-> FALSE, exc |-> "uncalled", val |-> <<>>]]
NoCmd == cmdOut = NoCmdOut

\* the state of the variables of the specifications not under way
NoOther == NoJson /\ NoDeps /\ NoReq /\ NoInstance /\ NoCmd

(***************************************************************************)
(* Bounds of the model.                                                    *)
(***************************************************************************)
MaxReleases == 3    \* releases in one registry listing (SpecRel)
MaxFiles == 2       \* files of the version under download_url (SpecUrl)
MaxCatalog == 2     \* package names in the registry's catalog (SpecHarvest)
MaxRuns == 2        \* harvesting passes run one after the other (SpecHarvest)
NWorkers == 2       \* threads of the pool, tp.n (SpecHarvest)
MaxPath == 4        \* elements of the path given to json_path (SpecJson)
MaxPlan == 4        \* attempts the network has an answer planned for (SpecNet)
MaxLines == 3       \* lines of requires.txt (SpecDeps)
MaxRequires == 2    \* entries of run_requires in metadata.json (SpecDeps)

(***************************************************************************)
(* Characters and text.                                                    *)
(***************************************************************************)
Digits == {"0", "1", "2", "3", "4", "5", "6", "7", "8", "9"}
Letters == {"a", "b", "c"}
WordChars == Digits \cup Letters \cup {"_"}

DigitVal(c) ==
    CASE c = "0" -> 0 [] c = "1" -> 1 [] c = "2" -> 2 [] c = "3" -> 3
      [] c = "4" -> 4 [] c = "5" -> 5 [] c = "6" -> 6 [] c = "7" -> 7
      [] c = "8" -> 8 [] c = "9" -> 9

\* ord() of the characters the model uses, in ASCII order
Ord(c) ==
    CASE c = "-" -> 45 [] c = "." -> 46
      [] c \in Digits -> 48 + DigitVal(c)
      [] c = "_" -> 95
      [] c = "a" -> 97 [] c = "b" -> 98 [] c = "c" -> 99

\* cmp() of two str values: -1, 0 or 1, lexicographic by character
RECURSIVE StrCmp(_, _)
StrCmp(s, t) ==
    IF s = <<>> /\ t = <<>> THEN 0
    ELSE IF s = <<>> THEN -1
    ELSE IF t = <<>> THEN 1
    ELSE IF Ord(Head(s)) < Ord(Head(t)) THEN -1
    ELSE IF Ord(Head(s)) > Ord(Head(t)) THEN 1
    ELSE StrCmp(Tail(s), Tail(t))

\* int() of a run of digits
RECURSIVE IntOf(_)
IntOf(ds) ==
    IF ds = <<>> THEN 0
    ELSE 10 * IntOf(SubSeq(ds, 1, Len(ds) - 1)) + DigitVal(ds[Len(ds)])

\* the longest prefix of s whose characters are all in set
RECURSIVE Run(_, _)
Run(s, set) ==
    IF s = <<>> \/ Head(s) \notin set THEN <<>>
    ELSE <<Head(s)>> \o Run(Tail(s), set)

Drop(s, n) == SubSeq(s, n + 1, Len(s))

(***************************************************************************)
(* stutils.versions, as Package.releases uses it.                          *)
(***************************************************************************)
IntChunk(n) == [t |-> "int", v |-> n, s |-> <<>>]
StrChunk(w) == [t |-> "str", v |-> 0, s |-> w]

\* versions.parse: re.findall(r"(\d+|[A-Za-z]\w*)", version), digit runs as int
RECURSIVE parse(_)
parse(version) ==
    IF version = <<>> THEN <<>>
    ELSE IF Head(version) \in Digits THEN
        LET r == Run(version, Digits)
        IN  <<IntChunk(IntOf(r))>> \o parse(Drop(version, Len(r)))
    ELSE IF Head(version) \in Letters THEN
        LET r == Run(version, WordChars)
        IN  <<StrChunk(r)>> \o parse(Drop(version, Len(r)))
    ELSE parse(Tail(version))

\* chunk1 > chunk2 in Python 2: ints by value, strs by character, int < str
ChunkCmp(a, b) ==
    IF a.t = "int" /\ b.t = "int"
    THEN (IF a.v < b.v THEN -1 ELSE IF a.v > b.v THEN 1 ELSE 0)
    ELSE IF a.t = "str" /\ b.t = "str" THEN StrCmp(a.s, b.s)
    ELSE IF a.t = "int" THEN -1
    ELSE 1

Min(a, b) == IF a < b THEN a ELSE b

RECURSIVE CmpPrefix(_, _, _, _)
CmpPrefix(c1, c2, i, n) ==
    IF i > n THEN 0
    ELSE IF ChunkCmp(c1[i], c2[i]) # 0 THEN ChunkCmp(c1[i], c2[i])
    ELSE CmpPrefix(c1, c2, i + 1, n)

\* versions.compare(ver1, ver2): -1, 0 or 1
compare(ver1, ver2) ==
    LET chunks1 == parse(ver1)
        chunks2 == parse(ver2)
        min_len == Min(Len(chunks1), Len(chunks2))
        head == CmpPrefix(chunks1, chunks2, 1, min_len)
    IN  IF head # 0 THEN head
        ELSE IF Len(chunks1) > min_len /\ chunks1[Len(chunks1)].t = "str" THEN -1
        ELSE IF Len(chunks2) > min_len /\ chunks2[Len(chunks2)].t = "str" THEN 1
        ELSE 0

(***************************************************************************)
(* Package.releases                                                        *)
(***************************************************************************)
\* re.match("^\d+(\.\d+)*$", label)
RECURSIVE DotDigits(_)
DotDigits(s) ==
    IF s = <<>> THEN TRUE
    ELSE IF Head(s) # "." THEN FALSE
    ELSE LET r == Run(Tail(s), Digits)
         IN  r # <<>> /\ DotDigits(Drop(Tail(s), Len(r)))

StableLabel(label) ==
    LET r == Run(label, Digits)
    IN  r # <<>> /\ DotDigits(Drop(label, Len(r)))

\* f['upload_time'][:10]: the day of an ISO timestamp, its time of day cut off
Date10(upload_time) == upload_time.day

\* min(f['upload_time'][:10] for f in files)
RECURSIVE MinDate(_)
MinDate(files) ==
    IF Len(files) = 1 THEN Date10(files[1].upload_time)
    ELSE Min(Date10(files[1].upload_time), MinDate(Tail(files)))

\* [(label, min date) for label, files in releases.items() if files]
RECURSIVE Dated(_)
Dated(listing) ==
    IF listing = <<>> THEN <<>>
    ELSE IF Head(listing).files = <<>> THEN Dated(Tail(listing))
    ELSE <<[label |-> Head(listing).label, date |-> MinDate(Head(listing).files)]>>
         \o Dated(Tail(listing))

\* sorted(..., key=lambda r: r[1]): stable, an item goes after every item
\* already placed whose date is not later
RECURSIVE InsertByDate(_, _)
InsertByDate(sorted, r) ==
    IF sorted = <<>> THEN <<r>>
    ELSE IF Head(sorted).date <= r.date
         THEN <<Head(sorted)>> \o InsertByDate(Tail(sorted), r)
         ELSE <<r>> \o sorted

RECURSIVE SortByDate(_)
SortByDate(rs) ==
    IF rs = <<>> THEN <<>>
    ELSE InsertByDate(SortByDate(SubSeq(rs, 1, Len(rs) - 1)), rs[Len(rs)])

RECURSIVE OnlyStable(_)
OnlyStable(rs) ==
    IF rs = <<>> THEN <<>>
    ELSE IF StableLabel(Head(rs).label) THEN <<Head(rs)>> \o OnlyStable(Tail(rs))
    ELSE OnlyStable(Tail(rs))

\* KeepRelease gone wrong: the scan compares the labels as plain strings
KeepReleaseLexical(_rel, label) ==
    _rel = <<>> \/ StrCmp(label, _rel[Len(_rel)].label) >= 0

\* not _rel or versions.compare(label, _rel[-1][0]) >= 0
KeepRelease(_rel, label) ==
    _rel = <<>> \/ compare(label, _rel[Len(_rel)].label) >= 0

RECURSIVE NoBackports(_, _)
NoBackports(_rel, rs) ==
    IF rs = <<>> THEN _rel
    ELSE IF KeepRelease(_rel, Head(rs).label)
         THEN NoBackports(Append(_rel, Head(rs)), Tail(rs))
         ELSE NoBackports(_rel, Tail(rs))

\* SortedReleases gone wrong: the listing is taken in the registry's order
SortedReleasesUnsorted(listing) == Dated(listing)

SortedReleases(listing) == SortByDate(Dated(listing))

releases(listing, include_unstable, include_backports) ==
    LET all == SortedReleases(listing)
        stable == IF ~include_unstable THEN OnlyStable(all) ELSE all
    IN  IF ~include_backports /\ stable # <<>> THEN NoBackports(<<>>, stable)
        ELSE stable


(***************************************************************************)
(* Package.download_url                                                    *)
(***************************************************************************)
None == [some |-> FALSE, val |-> <<>>]
Some(v) == [some |-> TRUE, val |-> v]

\* the keys of SUPPORTED_FORMATS, a file extension being its dot-led tokens
SUPPORTED_FORMATS ==
    << [ext |-> <<".zip">>, cmd |-> "unzip"],
       [ext |-> <<".whl">>, cmd |-> "unzip"],
       [ext |-> <<".egg">>, cmd |-> "unzip"],
       [ext |-> <<".tar", ".gz">>, cmd |-> "untgz"],
       [ext |-> <<".tgz">>, cmd |-> "untgz"],
       [ext |-> <<".tar", ".bz2">>, cmd |-> "untbz"] >>

\* str.endswith
endswith(s, suffix) ==
    Len(suffix) <= Len(s) /\ SubSeq(s, Len(s) - Len(suffix) + 1, Len(s)) = suffix

\* download_url gone wrong: a file of any extension will do
AnyFile(url) == TRUE

\* any(info['url'].endswith(ext) for ext in SUPPORTED_FORMATS)
AnySupported(url) ==
    \E k \in 1..Len(SUPPORTED_FORMATS) : endswith(url, SUPPORTED_FORMATS[k].ext)

\* the preference order of download_url
PkgTypes ==
    <<"bdist_wheel", "bdist_egg", "sdist", "bdist_rpm", "bdist_deb", "bdist_wininst">>

\* self.info['releases'][ver]
RECURSIVE FilesOf(_, _)
FilesOf(listing, ver) ==
    IF listing = <<>> THEN <<>>
    ELSE IF Head(listing).label = ver THEN Head(listing).files
    ELSE FilesOf(Tail(listing), ver)

HasVersion(listing, ver) == \E i \in 1..Len(listing) : listing[i].label = ver

\* the inner loop: the first file of this pkgtype with a supported extension
RECURSIVE ScanFiles(_, _)
ScanFiles(files, pkgtype) ==
    IF files = <<>> THEN None
    ELSE IF Head(files).packagetype = pkgtype /\ AnySupported(Head(files).url)
         THEN Some(Head(files).url)
         ELSE ScanFiles(Tail(files), pkgtype)

\* the outer loop over the preference order
RECURSIVE ScanTypes(_, _)
ScanTypes(files, types) ==
    IF types = <<>> THEN None
    ELSE IF ScanFiles(files, Head(types)).some THEN ScanFiles(files, Head(types))
    ELSE ScanTypes(files, Tail(types))

\* BestUrl gone wrong: the loops swapped, the first acceptable file wins
RECURSIVE BestUrlFirstFile(_)
BestUrlFirstFile(files) ==
    IF files = <<>> THEN None
    ELSE IF (\E k \in 1..Len(PkgTypes) : Head(files).packagetype = PkgTypes[k])
            /\ AnySupported(Head(files).url)
         THEN Some(Head(files).url)
         ELSE BestUrlFirstFile(Tail(files))

BestUrl(files) == ScanTypes(files, PkgTypes)

download_url(listing, ver) == BestUrl(FilesOf(listing, ver))

(***************************************************************************)
(* Values of the cells of the cache table, and what pandas makes of them.  *)
(* A cell read back from the CSV file is a str, an int, a float or NaN;    *)
(* a float is its integer part and its fraction digits, trailing zeros     *)
(* dropped.                                                                *)
(***************************************************************************)
StrCell(s) == [t |-> "str", s |-> s, n |-> 0, f |-> <<>>]
IntCell(n) == [t |-> "int", s |-> <<>>, n |-> n, f |-> <<>>]
FloatCell(n, f) == [t |-> "float", s |-> <<>>, n |-> n, f |-> f]
NaN == [t |-> "nan", s |-> <<>>, n |-> 0, f |-> <<>>]

IsIntText(s) == s # <<>> /\ \A i \in 1..Len(s) : s[i] \in Digits

\* digits with one dot among them, as the float parser of read_csv accepts
IsFloatText(s) ==
    /\ \E i \in 1..Len(s) : s[i] = "."
    /\ \E i \in 1..Len(s) : s[i] \in Digits
    /\ \A i \in 1..Len(s) : s[i] \in Digits \cup {"."}
    /\ \A i, j \in 1..Len(s) : (s[i] = "." /\ s[j] = ".") => i = j

RECURSIVE StripZeros(_)
StripZeros(ds) ==
    IF ds # <<>> /\ ds[Len(ds)] = "0" THEN StripZeros(SubSeq(ds, 1, Len(ds) - 1))
    ELSE ds

\* float() of a text IsIntText or IsFloatText accepts
FloatOf(s) ==
    LET whole == Run(s, Digits)
        rest == Drop(s, Len(whole))
    IN  FloatCell(IntOf(whole), IF rest = <<>> THEN <<>> ELSE StripZeros(Tail(rest)))

\* the type inference of pd.read_csv on one column: int64 when every cell
\* is an integer, float64 when every cell is a number or empty, object (the
\* text itself, NaN for an empty cell) otherwise
InferColumn(texts) ==
    IF texts # <<>> /\ \A i \in 1..Len(texts) : IsIntText(texts[i])
    THEN [i \in 1..Len(texts) |-> IntCell(IntOf(texts[i]))]
    ELSE IF \A i \in 1..Len(texts) :
                texts[i] = <<>> \/ IsIntText(texts[i]) \/ IsFloatText(texts[i])
    THEN [i \in 1..Len(texts) |->
              IF texts[i] = <<>> THEN NaN ELSE FloatOf(texts[i])]
    ELSE [i \in 1..Len(texts) |->
              IF texts[i] = <<>> THEN NaN ELSE StrCell(texts[i])]

DigitChar(d) ==
    CASE d = 0 -> "0" [] d = 1 -> "1" [] d = 2 -> "2" [] d = 3 -> "3"
      [] d = 4 -> "4" [] d = 5 -> "5" [] d = 6 -> "6" [] d = 7 -> "7"
      [] d = 8 -> "8" [] d = 9 -> "9"

RECURSIVE IntText(_)
IntText(n) ==
    IF n < 10 THEN <<DigitChar(n)>>
    ELSE IntText(n \div 10) \o <<DigitChar(n % 10)>>

\* what DataFrame.to_csv writes for a cell
CellText(v) ==
    CASE v.t = "str" -> v.s
      [] v.t = "int" -> IntText(v.n)
      [] v.t = "float" -> IntText(v.n) \o <<".">> \o (IF v.f = <<>> THEN <<"0">> ELSE v.f)
      [] v.t = "nan" -> <<>>

\* Python 2 ordering of two cells: numbers by value, strs by character,
\* a number below a str
IsNum(v) == v.t \in {"int", "float"}

CellCmp(a, b) ==
    IF IsNum(a) /\ IsNum(b) THEN
        (IF a.n < b.n THEN -1 ELSE IF a.n > b.n THEN 1 ELSE StrCmp(a.f, b.f))
    ELSE IF IsNum(a) THEN -1
    ELSE IF IsNum(b) THEN 1
    ELSE StrCmp(a.s, b.s)

(***************************************************************************)
(* Package.download and Package.dependencies, as far as the harvesting     *)
(* pass depends on them.  A call either returns a value or raises.         *)
(***************************************************************************)
Return(v) == [raised |-> FALSE, exc |-> "none", val |-> v]
Raise(e) == [raised |-> TRUE, exc |-> e, val |-> <<>>]

\* Package.__init__: what the request to the registry came to.  Three
\* timeouts ("unreachable") and an HTTP error ("notfound") are IOError
RegistryAnswers == {"ok", "notfound", "unreachable", "badjson"}

PackageInit(answer) ==
    CASE answer = "ok" -> Return("Package")
      [] answer \in {"notfound", "unreachable"} -> Raise("PackageDoesNotExist")
      [] answer = "badjson" -> Raise("ValueError")

\* download_url.rsplit("/", 1)[-1]
RECURSIVE Fname(_)
Fname(url) ==
    IF \E i \in 1..Len(url) : url[i] = "/" THEN Fname(Tail(url)) ELSE url

\* os.path.join(PYPI_SAVE_PATH, self.name + "-" + ver)
ExtractDir(name, ver) == name \o <<"-">> \o ver

RetrieveOutcomes == {"ok", "ioerror"}

\* download gone wrong: the IOError of urlretrieve is not caught
downloadUncaught(listing, name, ver, retrieve) ==
    LET url == download_url(listing, ver)
    IN  IF ~url.some THEN Return(None)
        ELSE IF retrieve = "ioerror" THEN Raise("IOError")
        ELSE IF ~AnySupported(Fname(url.val)) THEN Raise("ValueError")
        ELSE Return(Some(ExtractDir(name, ver)))

\* Package.download(ver): None, the extraction directory, or ValueError
download(listing, name, ver, retrieve) ==
    LET url == download_url(listing, ver)
    IN  IF ~url.some THEN Return(None)
        ELSE IF retrieve = "ioerror" THEN Return(None)
        ELSE IF ~AnySupported(Fname(url.val)) THEN Raise("ValueError")
        ELSE Return(Some(ExtractDir(name, ver)))

\* dependency mappings an extracted tree may declare
EmptyDeps == <<>>
NumpyDeps == <<[name |-> "Numpy", spec |-> ">=1.9.0"]>>

\* what reading the metadata of an extracted tree comes to
ParseOutcomes == {Return(EmptyDeps), Return(NumpyDeps), Raise("ValueError")}

\* Package.dependencies(ver), after self.download(ver) returned extract_dir
dependencies(extract_dir, parsed) ==
    IF ~extract_dir.some THEN Return(EmptyDeps) ELSE parsed

(***************************************************************************)
(* The records of the harvesting pass and the cache file.                  *)
(***************************************************************************)
Lower(tok) == IF tok = "Numpy" THEN "numpy" ELSE tok

\* ",".join(p_deps.keys()).lower()
JoinKeys(p_deps) == [i \in 1..Len(p_deps) |-> Lower(p_deps[i].name)]

\* json.dumps(p_deps)
RECURSIVE JsonItems(_)
JsonItems(p_deps) ==
    IF p_deps = <<>> THEN <<>>
    ELSE <<Head(p_deps).name, ":", Head(p_deps).spec>> \o JsonItems(Tail(p_deps))

JsonDumps(p_deps) == <<"{">> \o JsonItems(p_deps) \o <<"}">>

\* the dict do() returns
Output(pkg_name, ver, release_date, p_deps) ==
    [name |-> StrCell(pkg_name), version |-> StrCell(ver), date |-> release_date,
     deps |-> StrCell(JoinKeys(p_deps)),
     raw_dependencies |-> StrCell(JsonDumps(p_deps))]

\* (output["name"], output["version"])
KeyOf(item) == <<item.name, item.version>>

NoFile == [exists |-> FALSE, rows |-> <<>>]

\* gen(pd.read_csv(fname, index_col=["name", "version"])): the dict keyed by
\* the index tuples as read_csv typed them, a later row replacing an earlier one
gen(rows) ==
    LET n == Len(rows)
        nameCol == InferColumn([i \in 1..n |-> rows[i].name])
        verCol == InferColumn([i \in 1..n |-> rows[i].version])
        depsCol == InferColumn([i \in 1..n |-> rows[i].deps])
        rawCol == InferColumn([i \in 1..n |-> rows[i].raw_dependencies])
        keyAt(i) == <<nameCol[i], verCol[i]>>
        last(k) == CHOOSE i \in 1..n :
                       keyAt(i) = k /\ \A j \in 1..n : keyAt(j) = k => j <= i
    IN  [k \in { keyAt(i) : i \in 1..n } |->
            [name |-> nameCol[last(k)], version |-> verCol[last(k)],
             date |-> rows[last(k)].date, deps |-> depsCol[last(k)],
             raw_dependencies |-> rawCol[last(k)]]]

\* the order of sort_values(["name", "version"])
KeyCmp(k1, k2) ==
    IF CellCmp(k1[1], k2[1]) # 0 THEN CellCmp(k1[1], k2[1]) ELSE CellCmp(k1[2], k2[2])

RECURSIVE SortedKeys(_)
SortedKeys(keys) ==
    IF keys = {} THEN <<>>
    ELSE LET k == CHOOSE k \in keys : \A o \in keys : KeyCmp(k, o) <= 0
         IN  <<k>> \o SortedKeys(keys \ {k})

ToRow(item) ==
    [name |-> CellText(item.name), version |-> CellText(item.version),
     date |-> item.date, deps |-> CellText(item.deps),
     raw_dependencies |-> CellText(item.raw_dependencies)]

\* pd.DataFrame(deps.values()).sort_values(["name", "version"]).set_index(...)
\* as df.to_csv writes it
ToCsv(d) ==
    LET order == SortedKeys({ KeyOf(d[k]) : k \in DOMAIN d })
        at(i) == CHOOSE k \in DOMAIN d : KeyOf(d[k]) = order[i]
    IN  [i \in 1..Len(order) |-> ToRow(d[at(i)])]

(***************************************************************************)
(* The inputs of the two pure specifications.                              *)
(***************************************************************************)
V1_0 == <<"1", ".", "0">>
V0_9 == <<"0", ".", "9">>
V0_10 == <<"0", ".", "1", "0">>
V2_0a1 == <<"2", ".", "0", "a", "1">>
V1_0_1 == <<"1", ".", "0", ".", "1">>
LabelPool == {V1_0, V0_9, V0_10, V2_0a1, V1_0_1}

UrlWhl == <<"https://files", "/", "pkg", ".whl">>
UrlTgz == <<"https://files", "/", "pkg", ".tar", ".gz">>
UrlZip == <<"https://files", "/", "pkg", ".zip">>
UrlExe == <<"https://files", "/", "pkg", ".exe">>
UrlDir == <<"https://files", "/", "pkg", ".zip", "/", "download">>
UrlBare == <<"https://files", "/", ".tar", ".gz">>

File(type, url, day, time) ==
    [packagetype |-> type, url |-> url, upload_time |-> [day |-> day, time |-> time]]

\* the file lists a release of SpecRel may have
FilePool ==
    { <<>>,
      <<File("bdist_wheel", UrlWhl, 1, 9)>>,
      <<File("sdist", UrlTgz, 2, 0)>>,
      <<File("bdist_wininst", UrlExe, 3, 5)>>,
      <<File("sdist", UrlZip, 3, 0), File("bdist_wheel", UrlWhl, 1, 7)>> }

\* a JSON object has one entry per key
DistinctLabels(listing) ==
    \A i, j \in 1..Len(listing) : listing[i].label = listing[j].label => i = j

Listings ==
    { l \in UNION { [1..n -> [label : LabelPool, files : FilePool]] : n \in 0..MaxReleases } :
        DistinctLabels(l) }

\* the files the version of SpecUrl may have
UrlFiles ==
    { File(t, u, 1, 0) :
        t \in {"bdist_wheel", "sdist", "bdist_wininst", "bdist_dumb"},
        u \in {UrlWhl, UrlTgz, UrlZip, UrlExe, UrlDir, UrlBare} }

UrlListings ==
    { <<[label |-> V1_0, files |-> fs]>> :
        fs \in UNION { [1..n -> UrlFiles] : n \in 0..MaxFiles } }

NoCall == [op |-> "none", iu |-> FALSE, ib |-> FALSE, ver |-> <<>>]

NoTask == [name |-> <<>>, ver |-> <<>>, date |-> 0]
Idle == [st |-> "idle", task |-> NoTask, io |-> "none", dl |-> None, out |-> None]
NoPrev == [end |-> "none", began |-> <<>>, merged |-> FALSE]

\* no harvesting pass: the state of SpecHarvest's variables in the other two
NoHarvest ==
    /\ catalog = <<>> /\ registry = <<>> /\ file = NoFile /\ run = 0
    /\ pc = "off" /\ exc = "none" /\ deps = <<>> /\ names = <<>> /\ cur = <<>>
    /\ todo = <<>> /\ queue = <<>> /\ workers = <<>> /\ submitted = <<>>
    /\ merged = {} /\ loaded = <<>> /\ prev = NoPrev

(***************************************************************************)
(* SpecRel: Package.releases on every listing of the pool.                 *)
(***************************************************************************)
InitRel ==
    /\ info \in Listings
    /\ call = NoCall
    /\ relOut = <<>>
    /\ urlOut = None
    /\ NoHarvest
    /\ NoOther

CallReleases(include_unstable, include_backports) ==
    /\ call' = [op |-> "releases", iu |-> include_unstable,
                ib |-> include_backports, ver |-> <<>>]
    /\ relOut' = releases(info, include_unstable, include_backports)
    /\ UNCHANGED <<info, urlOut, hvars, nvars>>

NextRel == \E iu, ib \in BOOLEAN : CallReleases(iu, ib)

SpecRel == InitRel /\ [][NextRel]_vars

(***************************************************************************)
(* SpecUrl: Package.download_url on every file list of the pool.           *)
(***************************************************************************)
InitUrl ==
    /\ info \in UrlListings
    /\ call = NoCall
    /\ relOut = <<>>
    /\ urlOut = None
    /\ NoHarvest
    /\ NoOther

CallDownloadUrl(ver) ==
    /\ HasVersion(info, ver)            \* assert ver in self.info['releases']
    /\ call' = [op |-> "download_url", iu |-> FALSE, ib |-> FALSE, ver |-> ver]
    /\ urlOut' = download_url(info, ver)
    /\ UNCHANGED <<info, relOut, hvars, nvars>>

NextUrl == \E ver \in LabelPool : CallDownloadUrl(ver)

SpecUrl == InitUrl /\ [][NextUrl]_vars

(***************************************************************************)
(* SpecHarvest: the harvesting pass, dependencies() of pypi.py (the same   *)
(* code as pypi_dependencies() of deprecated.py), run up to MaxRuns times  *)
(* over one registry, with the worker threads of stutils' ThreadPool.      *)
(***************************************************************************)
NameA == <<"a">>
NameB == <<"b">>
HNames == {NameA, NameB}

\* what the registry may list for a package: H1 has only labels that read
\* as numbers and a release without files, H2 a label that does not read as
\* a number and a release whose only file is a Windows installer
H1 == << [label |-> V2_0a1, files |-> <<>>],
         [label |-> V1_0, files |-> <<File("bdist_wheel", UrlWhl, 1, 9)>>] >>
H2 == << [label |-> V1_0_1, files |-> <<File("sdist", UrlTgz, 2, 0)>>],
         [label |-> V0_9, files |-> <<File("bdist_wininst", UrlExe, 3, 5)>>] >>

\* Package.all(): sorted(a.text.lower() ...), a name once per anchor
Catalogs ==
    { c \in UNION { [1..n -> HNames] : n \in 0..MaxCatalog } :
        \A i \in 1..(Len(c) - 1) : StrCmp(c[i], c[i + 1]) <= 0 }

Workers == 1..NWorkers

Alive == pc \in {"load", "names", "package", "versions", "shutdown", "flush"}

InitHarvest ==
    /\ info = <<>> /\ call = NoCall /\ relOut = <<>> /\ urlOut = None
    /\ NoOther
    /\ catalog \in Catalogs
    /\ registry = [n \in HNames |-> IF n = NameA THEN H1 ELSE H2]
    /\ file = NoFile
    /\ run = 1
    /\ pc = "load"
    /\ exc = "none"
    /\ deps = <<>>
    /\ names = <<>>
    /\ cur = <<>>
    /\ todo = <<>>
    /\ queue = <<>>
    /\ workers = [w \in Workers |-> Idle]
    /\ submitted = <<>>
    /\ merged = {}
    /\ loaded = <<>>
    /\ prev = NoPrev

\* deps = {} ... if os.path.isfile(fname): deps = gen(pd.read_csv(...))
LoadCache ==
    /\ pc = "load"
    /\ deps' = IF file.exists THEN gen(file.rows) ELSE <<>>
    /\ loaded' = file.rows
    /\ pc' = "names"
    /\ UNCHANGED <<pvars, nvars, catalog, registry, file, run, exc, names, cur, todo,
                   queue, workers, submitted, merged, prev>>

\* tp = mapreduce.ThreadPool(); package_names = packages_info().index
ListPackages ==
    /\ pc = "names"
    /\ names' = catalog
    /\ pc' = "package"
    /\ prev' = NoPrev
    /\ UNCHANGED <<pvars, nvars, catalog, registry, file, run, exc, deps, cur, todo,
                   queue, workers, submitted, merged, loaded>>

\* for package_name in package_names: try: p = Package(package_name)
\* except PackageDoesNotExist: continue
NextPackage(answer) ==
    /\ pc = "package"
    /\ names # <<>>
    /\ LET p == PackageInit(answer)
       IN  IF ~p.raised
           THEN /\ cur' = Head(names)
                /\ todo' = releases(registry[Head(names)], TRUE, TRUE)
                /\ pc' = "versions"
                /\ exc' = exc
           ELSE IF p.exc = "PackageDoesNotExist"
           THEN /\ UNCHANGED <<cur, todo, pc, exc>>
           ELSE /\ pc' = "aborted"
                /\ exc' = p.exc
                /\ UNCHANGED <<cur, todo>>
    /\ names' = Tail(names)
    /\ UNCHANGED <<pvars, nvars, catalog, registry, file, run, deps, queue, workers,
                   submitted, merged, loaded, prev>>

\* the loop over package_names is exhausted
EndOfCatalog ==
    /\ pc = "package"
    /\ names = <<>>
    /\ pc' = "shutdown"
    /\ UNCHANGED <<pvars, nvars, catalog, registry, file, run, exc, deps, names, cur,
                   todo, queue, workers, submitted, merged, loaded, prev>>

\* for version, release_date in p.releases(True, True):
\*     if (package_name, version) not in deps: tp.submit(do, ...)
NextVersion ==
    /\ pc = "versions"
    /\ todo # <<>>
    /\ LET key == <<StrCell(cur), StrCell(Head(todo).label)>>
       IN  IF key \notin DOMAIN deps
           THEN /\ queue' = Append(queue, [name |-> cur, ver |-> Head(todo).label,
                                           date |-> Head(todo).date])
                /\ submitted' = Append(submitted, <<cur, Head(todo).label>>)
           ELSE UNCHANGED <<queue, submitted>>
    /\ todo' = Tail(todo)
    /\ UNCHANGED <<pvars, nvars, catalog, registry, file, run, pc, exc, deps, names, cur,
                   workers, merged, loaded, prev>>

\* the loop over the releases of the package is exhausted
EndOfPackage ==
    /\ pc = "versions"
    /\ todo = <<>>
    /\ pc' = "package"
    /\ UNCHANGED <<pvars, nvars, catalog, registry, file, run, exc, deps, names, cur,
                   todo, queue, workers, submitted, merged, loaded, prev>>

\* a thread waiting on the queue
Free(w) == workers[w].st = "idle"

Drained == queue = <<>> /\ \A w \in Workers : Free(w)

\* Shutdown gone wrong: the scheduler does not wait for the workers
ShutdownNoWait ==
    /\ pc = "shutdown"
    /\ pc' = "flush"
    /\ UNCHANGED <<pvars, nvars, catalog, registry, file, run, exc, deps, names, cur,
                   todo, queue, workers, submitted, merged, loaded, prev>>

\* tp.shutdown(): returns once every submitted task is done
Shutdown ==
    /\ pc = "shutdown"
    /\ Drained
    /\ pc' = "flush"
    /\ UNCHANGED <<pvars, nvars, catalog, registry, file, run, exc, deps, names, cur,
                   todo, queue, workers, submitted, merged, loaded, prev>>

\* df = pd.DataFrame(deps.values()).sort_values(...).set_index(...);
\* df.to_csv(fname).  Without a record there is no column "name" to sort by
Flush ==
    /\ pc = "flush"
    /\ IF DOMAIN deps = {}
       THEN /\ pc' = "aborted"
            /\ exc' = "KeyError"
            /\ file' = file
       ELSE /\ pc' = "done"
            /\ exc' = exc
            /\ file' = [exists |-> TRUE, rows |-> ToCsv(deps)]
    /\ UNCHANGED <<pvars, nvars, catalog, registry, run, deps, names, cur, todo, queue,
                   workers, submitted, merged, loaded, prev>>

\* the answers do() gets to consult before it ends: nothing is retrieved for a
\* package the registry did not give or a version without a usable file, and
\* nothing is parsed where nothing was extracted (what is never consulted is
\* held at one value)
Consulted(t, answer, retrieve, parsed) ==
    LET asked == answer = "ok" /\ download_url(registry[t.name], t.ver).some
    IN  /\ asked \/ retrieve = "ok"
        /\ (asked /\ retrieve = "ok") \/ parsed = Return(EmptyDeps)

\* a worker thread takes the next task off the queue and runs do() on it:
\* Package(pkg_name).dependencies(ver), which calls self.download(ver), and the
\* record made of its result.  do() reads nothing the scheduler or another
\* thread writes, so it is one step.  An exception ends the task: the pool
\* logs it and calls no callback.  (The threads are alike: the free thread of
\* the least number stands for any of them.)
WorkerDo(w, answer, retrieve, parsed) ==
    /\ Alive
    /\ Free(w)
    /\ \A v \in Workers : Free(v) => w <= v
    /\ queue # <<>>
    /\ Consulted(Head(queue), answer, retrieve, parsed)
    /\ LET t == Head(queue)
           p == PackageInit(answer)
           d == download(registry[t.name], t.name, t.ver, retrieve)
           io == IF download_url(registry[t.name], t.ver).some THEN retrieve ELSE "none"
           p_deps == dependencies(d.val, parsed)
       IN  workers' = [workers EXCEPT ![w] =
               IF p.raised THEN Idle
               ELSE IF d.raised THEN [Idle EXCEPT !.io = io]
               ELSE IF p_deps.raised THEN Idle
               ELSE [st |-> "callback", task |-> t, io |-> io, dl |-> d.val,
                     out |-> Some(Output(t.name, t.ver, t.date, p_deps.val))]]
    /\ queue' = Tail(queue)
    /\ UNCHANGED <<pvars, nvars, catalog, registry, file, run, pc, exc, deps, names, cur,
                   todo, submitted, merged, loaded, prev>>

\* done gone wrong: every merged record is saved to the file at once
WorkerDoneSaving(w) ==
    /\ Alive
    /\ workers[w].st = "callback"
    /\ LET output == workers[w].out.val
       IN  /\ deps' = [k \in DOMAIN deps \cup {KeyOf(output)} |->
                          IF k = KeyOf(output) THEN output ELSE deps[k]]
           /\ merged' = merged \cup {<<workers[w].task.name, workers[w].task.ver>>}
           /\ file' = [exists |-> TRUE, rows |-> ToCsv(deps')]
    /\ workers' = [workers EXCEPT ![w] = Idle]
    /\ UNCHANGED <<pvars, nvars, catalog, registry, run, pc, exc, names, cur, todo,
                   queue, submitted, loaded, prev>>

\* done(output): deps[(output["name"], output["version"])] = output
WorkerDone(w) ==
    /\ Alive
    /\ workers[w].st = "callback"
    /\ LET output == workers[w].out.val
       IN  /\ deps' = [k \in DOMAIN deps \cup {KeyOf(output)} |->
                          IF k = KeyOf(output) THEN output ELSE deps[k]]
           /\ merged' = merged \cup {<<workers[w].task.name, workers[w].task.ver>>}
    /\ workers' = [workers EXCEPT ![w] = Idle]
    /\ UNCHANGED <<pvars, nvars, catalog, registry, file, run, pc, exc, names, cur, todo,
                   queue, submitted, loaded, prev>>

\* the rows the cache file had when the pass under way began
Began == IF pc = "load" THEN file.rows ELSE loaded

\* dependencies() is called again, in a new process, after the pass before
\* returned, raised, or was killed from outside ("killed": wherever it was)
Restart ==
    /\ Alive \/ pc \in {"done", "aborted"}
    /\ run < MaxRuns
    /\ run' = run + 1
    /\ prev' = [end |-> IF Alive THEN "killed" ELSE pc, began |-> Began,
                 merged |-> merged # {}]
    /\ pc' = "load"
    /\ exc' = "none"
    /\ deps' = <<>>
    /\ names' = <<>>
    /\ cur' = <<>>
    /\ todo' = <<>>
    /\ queue' = <<>>
    /\ workers' = [w \in Workers |-> Idle]
    /\ submitted' = <<>>
    /\ merged' = {}
    /\ loaded' = <<>>
    /\ UNCHANGED <<pvars, nvars, catalog, registry, file>>

NextHarvest ==
    \/ LoadCache
    \/ ListPackages
    \/ \E answer \in RegistryAnswers : NextPackage(answer)
    \/ EndOfCatalog
    \/ NextVersion
    \/ EndOfPackage
    \/ Shutdown
    \/ Flush
    \/ \E w \in Workers, answer \in RegistryAnswers, retrieve \in RetrieveOutcomes,
          parsed \in ParseOutcomes : WorkerDo(w, answer, retrieve, parsed)
    \/ \E w \in Workers : WorkerDone(w)
    \/ Restart

SpecHarvest == InitHarvest /\ [][NextHarvest]_vars

(***************************************************************************)
(* SpecJson: json_path of base.py on JSON values.  A value is None, a      *)
(* number, a str (its characters), a list or a dict with str keys; a path  *)
(* element is a str or an int.                                             *)
(***************************************************************************)
JNull == [t |-> "null", s |-> <<>>, n |-> 0, keys |-> <<>>, kids |-> <<>>]
JNum(n) == [t |-> "num", s |-> <<>>, n |-> n, keys |-> <<>>, kids |-> <<>>]
JStr(s) == [t |-> "str", s |-> s, n |-> 0, keys |-> <<>>, kids |-> <<>>]
JList(kids) == [t |-> "list", s |-> <<>>, n |-> 0, keys |-> <<>>, kids |-> kids]
JDict(keys, kids) == [t |-> "dict", s |-> <<>>, n |-> 0, keys |-> keys, kids |-> kids]

KStr(s) == [t |-> "str", s |-> s, n |-> 0]
KInt(n) == [t |-> "int", s |-> "", n |-> n]

\* seq[key] of Python for an int key: from the end when negative
SeqIndex(len, n) == IF n >= 0 THEN n + 1 ELSE len + n + 1

\* res[key]
GetItem(res, key) ==
    CASE res.t = "dict" ->
            IF key.t = "str" /\ \E i \in 1..Len(res.keys) : res.keys[i] = key.s
            THEN Return(res.kids[CHOOSE i \in 1..Len(res.keys) : res.keys[i] = key.s])
            ELSE Raise("KeyError")
      [] res.t = "list" ->
            IF key.t # "int" THEN Raise("TypeError")
            ELSE IF SeqIndex(Len(res.kids), key.n) \in 1..Len(res.kids)
            THEN Return(res.kids[SeqIndex(Len(res.kids), key.n)])
            ELSE Raise("IndexError")
      [] res.t = "str" ->
            IF key.t # "int" THEN Raise("TypeError")
            ELSE IF SeqIndex(Len(res.s), key.n) \in 1..Len(res.s)
            THEN Return(JStr(<<res.s[SeqIndex(Len(res.s), key.n)]>>))
            ELSE Raise("IndexError")
      [] OTHER -> Raise("TypeError")      \* None, a number: not subscriptable

\* json_path(item, *path): res = item; for key in path: try: res = res[key]
\* except (IndexError, KeyError): return None; return res
RECURSIVE json_path(_, _)
json_path(item, path) ==
    IF path = <<>> THEN Return(item)
    ELSE LET r == GetItem(item, Head(path))
         IN  IF r.raised
             THEN (IF r.exc \in {"IndexError", "KeyError"} THEN Return(JNull) ELSE r)
             ELSE json_path(r.val, Tail(path))

\* the item of the doctest of json_path
JsonDoc ==
    JDict(<<"doc">>, <<JDict(<<"versions">>, <<JDict(<<"0.1">>,
        <<JDict(<<"time">>, <<JStr(<<"2", "0", "1", "8">>)>>)>>)>>)>>)

JsonPool ==
    { JsonDoc, JNull, JNum(1), JStr(<<"a", "b">>), JList(<<>>), JDict(<<>>, <<>>),
      JList(<<JNum(1), JNull>>),
      JDict(<<"doc">>, <<JNull>>),
      JDict(<<"doc", "time">>, <<JNum(1), JStr(<<"a">>)>>),
      JDict(<<"doc">>, <<JList(<<JStr(<<"a">>), JDict(<<"time">>, <<JNum(2)>>)>>)>>) }

KeyPool ==
    { KStr("doc"), KStr("versions"), KStr("0.1"), KStr("time"), KStr("times"),
      KInt(0), KInt(1), KInt(-1) }

JsonPaths == UNION { [1..n -> KeyPool] : n \in 0..MaxPath }

InitJson ==
    /\ info = <<>> /\ call = NoCall /\ relOut = <<>> /\ urlOut = None
    /\ NoHarvest
    /\ NoCmd
    /\ NoDeps
    /\ NoReq
    /\ NoInstance
    /\ jsonItem \in JsonPool
    /\ jsonPath \in JsonPaths
    /\ jsonOut = NoJsonOut

CallJsonPath ==
    /\ jsonOut' = json_path(jsonItem, jsonPath)
    /\ UNCHANGED <<pvars, hvars, cvars, dvars, rvars, xvars, jsonItem, jsonPath>>

NextJson == CallJsonPath

SpecJson == InitJson /\ [][NextJson]_vars

(***************************************************************************)
(* SpecDeps: Package.dependencies on an extracted tree, from the metadata  *)
(* location _info_path found to the mapping returned.  A requirement or a  *)
(* line of a file is a sequence of tokens: a word token is made of the     *)
(* characters [\w_.-] only, every other token has none of them.            *)
(***************************************************************************)
WordToks ==
    { "numpy", "six", "requests", "pytest", "security", "test", "1.9.0", "1.0",
      "Requires-Dist", "Name", "pkg" }
Blanks == {" ", "\n"}

\* str.strip()
RECURSIVE LStrip(_)
LStrip(s) == IF s # <<>> /\ Head(s) \in Blanks THEN LStrip(Tail(s)) ELSE s

RECURSIVE RStrip(_)
RStrip(s) ==
    IF s # <<>> /\ s[Len(s)] \in Blanks THEN RStrip(SubSeq(s, 1, Len(s) - 1)) ELSE s

Strip(s) == RStrip(LStrip(s))

\* dep_split(dep): match = re.match("[\w_.-]+", dep); name = match.group(0) or
\* ""; version = dep[len(name):].strip()
dep_split(dep) ==
    LET name == Run(dep, WordToks)
    IN  [name |-> name, spec |-> Strip(Drop(dep, Len(name)))]

\* dict(pairs): a later pair replaces the value of an earlier one of its name
RECURSIVE DictOf(_, _)
DictOf(d, pairs) ==
    IF pairs = <<>> THEN d
    ELSE LET p == Head(pairs)
             at == { i \in 1..Len(d) : d[i].name = p.name }
         IN  DictOf(IF at = {} THEN Append(d, p)
                    ELSE [d EXCEPT ![CHOOSE i \in at : TRUE] = p], Tail(pairs))

\* (dep_split(dep.strip()) for dep in deps if dep.strip())
RECURSIVE SplitAll(_)
SplitAll(ds) ==
    IF ds = <<>> THEN <<>>
    ELSE (IF Strip(Head(ds)) # <<>> THEN <<dep_split(Strip(Head(ds)))>> ELSE <<>>)
         \o SplitAll(Tail(ds))

\* for dep in info.get('run_requires', []): if 'extra' not in dep and
\* 'environment' not in dep: deps.extend(dep['requires'])
RECURSIVE RunRequires(_)
RunRequires(entries) ==
    IF entries = <<>> THEN <<>>
    ELSE (IF ~Head(entries).extra /\ ~Head(entries).environment
          THEN Head(entries).requires ELSE <<>>)
         \o RunRequires(Tail(entries))

\* for line in open(fname, 'r'): if "[" in line: break; if line: deps.append(line)
RECURSIVE RequiresLines(_)
RequiresLines(lines) ==
    IF lines = <<>> THEN <<>>
    ELSE IF \E i \in 1..Len(Head(lines)) : Head(lines)[i] = "[" THEN <<>>
    ELSE (IF Head(lines) # <<>> THEN <<Head(lines)>> ELSE <<>>)
         \o RequiresLines(Tail(lines))

\* the else branch of dependencies: params = self.get_setup_params(extract_dir)
UsesSetupParams(t) ==
    ~endswith(t.info_path, <<".dist-info">>) /\ ~endswith(t.info_path, <<".egg-info">>)

\* Package.dependencies(ver) from info_path = self._info_path(ver) or "" on
DependenciesOf(t) ==
    IF endswith(t.info_path, <<".dist-info">>)
    THEN IF ~t.metadata_json.some THEN Return(EmptyDeps)
         ELSE Return(DictOf(<<>>, SplitAll(RunRequires(t.metadata_json.val))))
    ELSE IF endswith(t.info_path, <<".egg-info">>)
    THEN IF ~t.requires_txt.some THEN Return(EmptyDeps)
         ELSE Return(DictOf(<<>>, SplitAll(RequiresLines(t.requires_txt.val))))
    ELSE IF ~t.setup.some THEN Return(EmptyDeps)
         ELSE Return(DictOf(<<>>, SplitAll(t.setup.val)))

\* requirements as the files spell them
ReqNumpyParen == <<"numpy", " ", "(", ">=", "1.9.0", ")">>
ReqNumpy == <<"numpy", ">=", "1.9.0">>
ReqSix == <<"six">>
ReqPytest == <<"pytest">>
ReqExtra == <<"requests", "[", "security", "]", ">=", "1.0">>
ReqNameless == <<">=", "1.0">>

Entry(extra, environment, requires) ==
    [extra |-> extra, environment |-> environment, requires |-> requires]

\* the entries of run_requires in metadata.json
EntryPool ==
    { Entry(FALSE, FALSE, <<ReqNumpyParen>>), Entry(FALSE, FALSE, <<ReqSix>>),
      Entry(TRUE, FALSE, <<ReqPytest>>), Entry(FALSE, TRUE, <<ReqSix>>) }

\* the lines of the flat manifest METADATA
MetadataPool ==
    { None,
      Some(<< <<"Name", ":", " ", "pkg", "\n">> >>),
      Some(<< <<"Name", ":", " ", "pkg", "\n">>,
              <<"Requires-Dist", ":", " ">> \o ReqNumpyParen \o <<"\n">> >>) }

\* the lines of requires.txt
LinePool ==
    { ReqNumpy \o <<"\n">>, ReqSix \o <<"\n">>, ReqExtra \o <<"\n">>,
      <<"[", "test", "]", "\n">>, <<"\n">> }

Tree(info_path, metadata_json, metadata, requires_txt, setup) ==
    [info_path |-> info_path, metadata_json |-> metadata_json, METADATA |-> metadata,
     requires_txt |-> requires_txt, setup |-> setup]

DistInfoTrees ==
    { Tree(<<"pkg", "-", "1.0", ".dist-info">>, j, m, None, None) :
        j \in {None} \cup { Some(e) : e \in UNION { [1..n -> EntryPool] : n \in 0..MaxRequires } },
        m \in MetadataPool }

EggInfoTrees ==
    { Tree(<<"pkg", ".egg-info">>, None, None, r, None) :
        r \in {None} \cup { Some(l) : l \in UNION { [1..n -> LinePool] : n \in 0..MaxLines } } }

\* no metadata location, or the EGG-INFO of an egg: setup() parameters, if
\* the sandbox gave any, with or without install_requires
SetupTrees ==
    { Tree(ip, None, None, None, st) :
        ip \in { <<>>, <<"EGG-INFO">> },
        st \in { None, Some(<<>>), Some(<<ReqNumpy, ReqSix>>),
                 Some(<<ReqNameless, ReqSix>>) } }
        \cup { Tree(<<"EGG-INFO">>, None, None, Some(<<ReqSix \o <<"\n">>>>), None) }

Trees == DistInfoTrees \cup EggInfoTrees \cup SetupTrees

InitDeps ==
    /\ info = <<>> /\ call = NoCall /\ relOut = <<>> /\ urlOut = None
    /\ NoHarvest
    /\ NoCmd
    /\ NoJson
    /\ NoReq
    /\ NoInstance
    /\ tree \in Trees
    /\ depsOut = NoDepsOut
    /\ sandboxed = FALSE

CallDependencies ==
    /\ depsOut' = DependenciesOf(tree)
    /\ sandboxed' = UsesSetupParams(tree)
    /\ UNCHANGED <<pvars, hvars, cvars, jvars, rvars, xvars, tree>>

NextDeps == CallDependencies

SpecDeps == InitDeps /\ [][NextDeps]_vars

(***************************************************************************)
(* SpecNet: the network requests of pypi.py, attempt by attempt:           *)
(* Package._request (the catalog listing of Package.all, the metadata      *)
(* request of Package.__init__) and urlretrieve in Package.download.       *)
(***************************************************************************)
\* for i in range(3)
Tries == 3

\* what the network does to one attempt: an answer, a stalled connection, a
\* connection that cannot be made, an HTTP error status
NetOutcomes == {"ok", "timeout", "connection", "http"}

RequestKinds == {"catalog", "metadata", "artifact"}

Requests ==
    [kind : RequestKinds, plan : [1..MaxPlan -> NetOutcomes]]

InitNet ==
    /\ info = <<>> /\ call = NoCall /\ relOut = <<>> /\ urlOut = None
    /\ NoHarvest
    /\ NoCmd
    /\ NoJson
    /\ NoDeps
    /\ NoInstance
    /\ req \in Requests
    /\ reqSt = [pc |-> "run", attempts |-> 0, timed |-> TRUE, cause |-> "none"]

\* one turn of the loop of _request: requests.get(..., timeout=TIMEOUT);
\* except requests.exceptions.Timeout: continue; r.raise_for_status();
\* return r; after the last turn: raise IOError
RequestAttempt ==
    /\ req.kind \in {"catalog", "metadata"}
    /\ reqSt.pc = "run"
    /\ reqSt.attempts < Tries
    /\ LET n == reqSt.attempts + 1
           o == req.plan[n]
       IN  reqSt' = [pc |-> CASE o = "ok" -> "returned"
                              [] o = "timeout" -> IF n < Tries THEN "run" ELSE "failed"
                              [] OTHER -> "failed",
                     attempts |-> n, timed |-> reqSt.timed, cause |-> o]
    /\ UNCHANGED <<pvars, hvars, cvars, jvars, dvars, xvars, req>>

\* urlretrieve(download_url, fname), with no timeout; except IOError:
\* return None
Retrieve ==
    /\ req.kind = "artifact"
    /\ reqSt.pc = "run"
    /\ LET o == req.plan[1]
       IN  reqSt' = [pc |-> CASE o = "ok" -> "returned"
                              [] o = "timeout" -> "hung"
                              [] OTHER -> "failed",
                     attempts |-> 1, timed |-> FALSE, cause |-> o]
    /\ UNCHANGED <<pvars, hvars, cvars, jvars, dvars, xvars, req>>

NextNet == RequestAttempt \/ Retrieve

SpecNet == InitNet /\ [][NextNet]_vars

(***************************************************************************)
(* Package._info_path (SpecInfo): the metadata folder of an extracted      *)
(* tree.                                                                   *)
(***************************************************************************)
MaxName == 4

\* re.sub(pattern, repl, s) for a pattern "[...]+": every maximal run of
\* characters of the class is replaced by repl
RECURSIVE ReSubRuns(_, _, _)
ReSubRuns(class, repl, s) ==
    IF s = <<>> THEN <<>>
    ELSE IF Head(s) \in class
         THEN repl \o ReSubRuns(class, repl, Drop(s, Len(Run(s, class))))
         ELSE <<Head(s)>> \o ReSubRuns(class, repl, Tail(s))

\* the name with the periods taken for separators too
cnamePeriods(canonical_name) == ReSubRuns({"_", "-", "."}, <<"_">>, canonical_name)

\* cname = re.sub("[_-]+", "_", self.canonical_name)
cname(canonical_name) == ReSubRuns({"_", "-"}, <<"_">>, canonical_name)

\* os.path.join(a, b) of a directory and a relative name
PathJoin(a, b) == a \o <<"/">> \o b

\* dist_info_path, egg_info_path and "EGG-INFO", in the order of the loop
InfoProbes(n, ver) ==
    << n \o <<"-">> \o ver \o <<".dist-info">>, n \o <<".egg-info">>, <<"EGG-INFO">> >>

\* Package._info_path(ver): extract_dir is what self.download(ver) returned,
\* isdir the set of the paths os.path.isdir holds of
_info_path(canonical_name, ver, extract_dir, isdir) ==
    IF ~extract_dir.some THEN None
    ELSE LET probes == InfoProbes(cname(canonical_name), ver)
             found == {i \in 1..3 : PathJoin(extract_dir.val, probes[i]) \in isdir}
         IN  IF found = {} THEN None
             ELSE Some(PathJoin(extract_dir.val,
                                probes[CHOOSE i \in found : \A j \in found : i <= j]))

\* the names of projects: letters with hyphens, underscores and periods
\* between them
NameChars == {"a", "-", "_", "."}
CanonicalNames ==
    {s \in UNION {[1..n -> NameChars] : n \in 1..MaxName} :
        s[1] = "a" /\ s[Len(s)] = "a"}

\* the folders an archive of the project may have left in the tree
InfoFolders(canonical_name, ver) ==
    {InfoProbes(cname(canonical_name), ver)[i] : i \in 1..3}
        \cup {InfoProbes(cnamePeriods(canonical_name), ver)[i] : i \in 1..3}

InfoTarget(canonical_name, ver) == <<"/tmp/pypi", "/">> \o ExtractDir(canonical_name, ver)

InitInfo ==
    /\ info = <<>> /\ call = NoCall /\ relOut = <<>> /\ urlOut = None
    /\ NoHarvest
    /\ NoCmd
    /\ NoJson
    /\ NoDeps
    /\ NoReq
    /\ NoPkg
    /\ NoShare
    /\ \E canonical_name \in CanonicalNames, got \in BOOLEAN :
         \E present \in SUBSET InfoFolders(canonical_name, V1_0) :
            infoIn = [canonical_name |-> canonical_name, ver |-> V1_0,
                      extract_dir |-> IF got THEN Some(InfoTarget(canonical_name, V1_0))
                                      ELSE None,
                      isdir |-> IF got
                                THEN {PathJoin(InfoTarget(canonical_name, V1_0), f) :
                                        f \in present}
                                ELSE {}]
    /\ infoOut = NoInfoOut

CallInfoPath ==
    /\ ~infoOut.called
    /\ LET r == _info_path(infoIn.canonical_name, infoIn.ver, infoIn.extract_dir,
                            infoIn.isdir)
       IN  infoOut' = [called |-> TRUE, some |-> r.some, val |-> r.val]
    /\ UNCHANGED <<pvars, hvars, cvars, jvars, dvars, rvars, kvars, svars, infoIn>>

NextInfo == CallInfoPath

SpecInfo == InitInfo /\ [][NextInfo]_vars

(***************************************************************************)
(* One Package instance and the disk it extracts to (SpecPkg):             *)
(* Package.download with its folders, cached_method, get_setup_params and  *)
(* __del__.                                                                *)
(***************************************************************************)
MaxInner == 2

\* an argument left out of a call
Omitted == <<>>

\* PYPI_SAVE_PATH
SavePath == <<"/tmp/pypi">>

\* self.name and the versions of the package; self.latest_ver
PkgName == <<"pkg">>
latest_ver == V1_0
PkgVersions == {V1_0, V0_9}

\* the extensions download_url may choose a file with
ArtifactExts == {<<".zip">>, <<".whl">>, <<".egg">>, <<".tar", ".gz">>}

UrlOf(ver, ext) == <<"https://files", "/">> \o ExtractDir(PkgName, ver) \o ext

\* the directories an extraction may leave in the target folder
InnerNames == <<"d1", "d2", "d3", "d4">>

\* an artifact: the url download_url returns for the version, and how many
\* directories its extraction leaves at the top of the target folder
NoArtifact == [url |-> None, inner |-> 0]
Artifacts(ver) ==
    {NoArtifact}
        \cup {[url |-> Some(UrlOf(ver, ext)), inner |-> n] :
                ext \in ArtifactExts, n \in 0..MaxInner}
OldArtifacts(ver) ==
    {NoArtifact, [url |-> Some(UrlOf(ver, <<".zip">>)), inner |-> 1],
     [url |-> Some(UrlOf(ver, <<".tar", ".gz">>)), inner |-> 0]}

\* os.listdir of the target folder after the archive was retrieved into it
\* and extracted there
Extracted(artifact) ==
    IF ~artifact.url.some THEN {}
    ELSE {[name |-> Fname(artifact.url.val), isdir |-> FALSE]}
            \cup {[name |-> <<InnerNames[i]>>, isdir |-> TRUE] : i \in 1..artifact.inner}

\* a folder of the disk
Absent == [exists |-> FALSE, entries |-> {}]
Folder(entries) == [exists |-> TRUE, entries |-> entries]

\* extract_dir = os.path.join(PYPI_SAVE_PATH, self.name + "-" + ver)
Target(ver) == PathJoin(SavePath, ExtractDir(PkgName, ver))

\* any(os.path.isdir(dir) for dir in os.listdir(extract_dir)): the names are
\* not joined to extract_dir, so they are looked up in the working directory
AlreadyExtracted(folder, cwd) == \E e \in folder.entries : e.name \in cwd

\* the loop over os.listdir(extract_dir): the one directory of the folder
SingleDir(entries) ==
    LET ds == {e \in entries : e.isdir}
    IN  IF Cardinality(ds) = 1 THEN Some((CHOOSE e \in ds : TRUE).name) ELSE None

\* what a run of the body of download comes to
Ran(out, d, dirs, n) == [out |-> out, disk |-> d, dirs |-> dirs, fetched |-> n]

\* the body of Package.download(ver)
DownloadBody(arg, retrieve) ==
    LET ver == IF arg = Omitted THEN latest_ver ELSE arg
        url == world.art[ver].url
        there == disk[ver].exists
        held == IF there THEN disk[ver].entries ELSE {}
        dirs == IF there THEN _dirs ELSE Append(_dirs, Target(ver))
        n == [fetched EXCEPT ![ver] = @ + 1]
    IN  IF ~url.some THEN Ran(Return(None), disk, _dirs, fetched)
        ELSE IF there /\ AlreadyExtracted(disk[ver], world.cwd)
        THEN Ran(Return(Some(Target(ver))), disk, _dirs, fetched)
        ELSE IF retrieve = "ioerror"
        THEN Ran(Return(None), [disk EXCEPT ![ver] = Folder(held)], dirs, n)
        ELSE IF ~AnySupported(Fname(url.val))
        THEN Ran(Raise("ValueError"),
                 [disk EXCEPT ![ver] = Folder(held \cup
                     {[name |-> Fname(url.val), isdir |-> FALSE]})], dirs, n)
        ELSE LET entries == held \cup Extracted(world.art[ver])
                 single == SingleDir(entries)
             IN  Ran(Return(Some(IF endswith(url.val, <<".zip">>) /\ single.some
                                 THEN PathJoin(Target(ver), single.val)
                                 ELSE Target(ver))),
                     [disk EXCEPT ![ver] = Folder(entries)], dirs, n)

\* cached_method: the key is the name of the method with the arguments as
\* they were passed
InCache(method, arg) == \E m \in _cache : m.method = method /\ m.arg = arg
CacheOf(method, arg) == (CHOOSE m \in _cache : m.method = method /\ m.arg = arg).val
Memo(method, arg, val) == [method |-> method, arg |-> arg, val |-> val]

\* self.download(arg) through cached_method: the value, and what the call
\* left of the cache and the disk
CachedDownload(arg, retrieve) ==
    IF InCache("download", arg)
    THEN [ran |-> Ran(Return(CacheOf("download", arg)), disk, _dirs, fetched),
          cache |-> _cache]
    ELSE LET r == DownloadBody(arg, retrieve)
         IN  [ran |-> r,
              cache |-> IF r.out.raised THEN _cache
                        ELSE _cache \cup {Memo("download", arg, r.out.val)}]

DownloadArgs == {Omitted} \cup PkgVersions

InitPkg ==
    /\ info = <<>> /\ call = NoCall /\ relOut = <<>> /\ urlOut = None
    /\ NoHarvest
    /\ NoCmd
    /\ NoJson
    /\ NoDeps
    /\ NoReq
    /\ NoInfo
    /\ NoShare
    /\ \E custom \in BOOLEAN, cwd \in {{}, {<<InnerNames[1]>>}},
          latest \in Artifacts(V1_0), old \in OldArtifacts(V0_9) :
         \E found \in [PkgVersions -> {"absent", "empty", "extracted"}] :
            LET art == [v \in PkgVersions |-> IF v = latest_ver THEN latest ELSE old]
                pre == [v \in PkgVersions |->
                          CASE found[v] = "absent" -> Absent
                            [] found[v] = "empty" -> Folder({})
                            [] OTHER -> Folder(Extracted(art[v]))]
            IN  /\ world = [custom |-> custom, cwd |-> cwd, art |-> art, pre |-> pre]
                /\ disk = pre
    /\ _dirs = <<>>
    /\ _cache = {}
    /\ fetched = [v \in PkgVersions |-> 0]
    /\ life = [alive |-> TRUE, found |-> <<>>]

\* a call of download() or download(ver) that is not answered from the
\* cache
CallDownload ==
    /\ life.alive
    /\ \E arg \in DownloadArgs, retrieve \in RetrieveOutcomes :
         LET c == CachedDownload(arg, retrieve)
         IN  /\ ~InCache("download", arg)
             /\ disk' = c.ran.disk
             /\ _dirs' = c.ran.dirs
             /\ fetched' = c.ran.fetched
             /\ _cache' = c.cache
    /\ UNCHANGED <<pvars, hvars, cvars, jvars, dvars, rvars, ivars, svars, world, life>>

\* a call of get_setup_params(): extract_dir = extract_dir or
\* self.download(); os.path.join(None, 'setup.py') raises and nothing is
\* cached for the method
CallGetSetupParams ==
    /\ life.alive
    /\ ~InCache("get_setup_params", Omitted)
    /\ \E retrieve \in RetrieveOutcomes :
         LET c == CachedDownload(Omitted, retrieve)
         IN  /\ disk' = c.ran.disk
             /\ _dirs' = c.ran.dirs
             /\ fetched' = c.ran.fetched
             /\ _cache' = IF c.ran.out.raised \/ ~c.ran.out.val.some THEN c.cache
                          ELSE c.cache \cup
                                 {Memo("get_setup_params", Omitted, c.ran.out.val)}
    /\ UNCHANGED <<pvars, hvars, cvars, jvars, dvars, rvars, ivars, svars, world, life>>

\* shutil.rmtree of every folder of self._dirs
RemoveAll(d, dirs) ==
    [v \in DOMAIN d |->
        IF \E i \in 1..Len(dirs) : dirs[i] = Target(v) THEN Absent ELSE d[v]]

\* __del__ gone wrong: the test of the save path is left out
DelIgnoringSavePath ==
    /\ life.alive
    /\ life' = [alive |-> FALSE, found |-> disk]
    /\ disk' = RemoveAll(disk, _dirs)
    /\ UNCHANGED <<pvars, hvars, cvars, jvars, dvars, rvars, ivars, svars, world, _dirs, _cache, fetched>>

\* Package.__del__
Del ==
    /\ life.alive
    /\ life' = [alive |-> FALSE, found |-> disk]
    /\ disk' = IF world.custom THEN disk ELSE RemoveAll(disk, _dirs)
    /\ UNCHANGED <<pvars, hvars, cvars, jvars, dvars, rvars, ivars, svars, world, _dirs, _cache, fetched>>

NextPkg == CallDownload \/ CallGetSetupParams \/ Del

SpecPkg == InitPkg /\ [][NextPkg]_vars

(***************************************************************************)
(* The worker threads of a harvesting pass and the folders they extract to *)
(* (SpecShare): each thread runs do(), which builds its own Package and    *)
(* calls dependencies(ver), hence download(ver), and drops the instance    *)
(* when it returns.                                                        *)
(***************************************************************************)
\* package names and version labels of the registry; releases(True, True)
\* keeps every label
ShareNames == {<<"a">>, <<"a", "-", "1">>}
ShareLabels == {<<"0">>, <<"1", "-", "0">>}
ShareTasks == [name : ShareNames, ver : ShareLabels]

\* extract_dir of the task of a thread
FolderOf(job) == PathJoin(SavePath, ExtractDir(job.name, job.ver))

Job(task, at, dirs) == [name |-> task.name, ver |-> task.ver, pc |-> at, dirs |-> dirs]

At(w, at) == [jobs EXCEPT ![w].pc = at]

InitShare ==
    /\ info = <<>> /\ call = NoCall /\ relOut = <<>> /\ urlOut = None
    /\ NoHarvest
    /\ NoCmd
    /\ NoJson
    /\ NoDeps
    /\ NoReq
    /\ NoInfo
    /\ NoPkg
    /\ \E tasks \in [1..NWorkers -> ShareTasks] :
         jobs = [w \in 1..NWorkers |-> Job(tasks[w], "isdir", <<>>)]
    /\ folders = {}

\* if os.path.isdir(extract_dir): the tree is taken for extracted, or the
\* archive is retrieved into the folder found; else: on to os.mkdir
CheckFolder(w) ==
    /\ jobs[w].pc = "isdir"
    /\ \E extracted \in BOOLEAN :
         jobs' = At(w, IF FolderOf(jobs[w]) \notin folders THEN "mkdir"
                       ELSE IF extracted THEN "read" ELSE "retrieve")
    /\ UNCHANGED <<pvars, hvars, cvars, jvars, dvars, rvars, ivars, kvars, folders>>

\* os.mkdir(extract_dir); self._dirs.append(extract_dir): os.mkdir raises
\* OSError when another thread made the folder since the test
MakeFolder(w) ==
    /\ jobs[w].pc = "mkdir"
    /\ IF FolderOf(jobs[w]) \in folders
       THEN jobs' = At(w, "done") /\ UNCHANGED folders
       ELSE /\ folders' = folders \cup {FolderOf(jobs[w])}
            /\ jobs' = [jobs EXCEPT ![w].pc = "retrieve",
                                    ![w].dirs = Append(@, FolderOf(jobs[w]))]
    /\ UNCHANGED <<pvars, hvars, cvars, jvars, dvars, rvars, ivars, kvars>>

\* urlretrieve(download_url, fname) and the extraction into extract_dir;
\* IOError, of a broken link or of a folder that is gone, returns None
RetrieveInto(w) ==
    /\ jobs[w].pc = "retrieve"
    /\ \E retrieve \in RetrieveOutcomes :
         jobs' = At(w, IF FolderOf(jobs[w]) \in folders /\ retrieve = "ok"
                       THEN "read" ELSE "done")
    /\ UNCHANGED <<pvars, hvars, cvars, jvars, dvars, rvars, ivars, kvars, folders>>

\* dependencies reads the metadata of the tree and do() returns
ReadTree(w) ==
    /\ jobs[w].pc = "read"
    /\ jobs' = At(w, "done")
    /\ UNCHANGED <<pvars, hvars, cvars, jvars, dvars, rvars, ivars, kvars, folders>>

\* Package.__del__ under the default save path, when do() drops the instance
DropInstance(w) ==
    /\ jobs[w].pc = "done"
    /\ folders' = folders \ {jobs[w].dirs[i] : i \in 1..Len(jobs[w].dirs)}
    /\ jobs' = At(w, "gone")
    /\ UNCHANGED <<pvars, hvars, cvars, jvars, dvars, rvars, ivars, kvars>>

NextShare ==
    \E w \in 1..NWorkers :
        \/ CheckFolder(w)
        \/ MakeFolder(w)
        \/ RetrieveInto(w)
        \/ ReadTree(w)
        \/ DropInstance(w)

SpecShare == InitShare /\ [][NextShare]_vars

(***************************************************************************)
(* The extraction command of Package.download (SpecFmt): from the url      *)
(* download_url chose to the entry of SUPPORTED_FORMATS the archive is     *)
(* extracted with.                                                         *)
(***************************************************************************)
\* for ext in SUPPORTED_FORMATS: if fname.endswith(ext): extension = ext;
\* break: the extensions the loop may stop at, a dict having no order
Extensions(fname) ==
    {SUPPORTED_FORMATS[k].ext :
        k \in {k \in 1..Len(SUPPORTED_FORMATS) : endswith(fname, SUPPORTED_FORMATS[k].ext)}}

\* SUPPORTED_FORMATS[extension]
CommandOf(extension) ==
    SUPPORTED_FORMATS[CHOOSE k \in 1..Len(SUPPORTED_FORMATS) :
                          SUPPORTED_FORMATS[k].ext = extension].cmd

InitFmt ==
    /\ info \in UrlListings
    /\ call = NoCall
    /\ relOut = <<>>
    /\ urlOut = None
    /\ NoHarvest
    /\ NoJson
    /\ NoDeps
    /\ NoReq
    /\ NoInstance
    /\ cmdOut = NoCmdOut

\* download(ver) as far as cmd = SUPPORTED_FORMATS[extension] % ..., the
\* archive retrieved: None without a url, ValueError without an extension
PickCommand(ver) ==
    /\ HasVersion(info, ver)
    /\ LET url == download_url(info, ver)
       IN  IF ~url.some
           THEN cmdOut' = [called |-> TRUE, url |-> url, out |-> Return(None)]
           ELSE IF Extensions(Fname(url.val)) = {}
           THEN cmdOut' = [called |-> TRUE, url |-> url, out |-> Raise("ValueError")]
           ELSE \E extension \in Extensions(Fname(url.val)) :
                   cmdOut' = [called |-> TRUE, url |-> url,
                              out |-> Return(Some(CommandOf(extension)))]
    /\ UNCHANGED <<pvars, hvars, jvars, dvars, rvars, xvars>>

NextFmt == \E ver \in LabelPool : PickCommand(ver)

SpecFmt == InitFmt /\ [][NextFmt]_vars

(***************************************************************************)
(* Properties of Package.releases (SpecRel).                               *)
(***************************************************************************)
\* the least upload day of a non-empty file list
MinDay(files) ==
    LET days == { files[i].upload_time.day : i \in 1..Len(files) }
    IN  CHOOSE d \in days : \A e \in days : d <= e

\* the entries of the listing a call may return: those with files, and with
\* a dot-separated-digits label unless unstable releases are asked for
Candidates(include_unstable) ==
    { i \in 1..Len(info) :
        info[i].files # <<>> /\ (include_unstable \/ StableLabel(info[i].label)) }

Returned(label) == \E i \in 1..Len(relOut) : relOut[i].label = label

Pos(label) == CHOOSE i \in 1..Len(info) : info[i].label = label

ExampleEntries ==
    { [label |-> V1_0, files |-> <<File("bdist_wheel", UrlWhl, 1, 9)>>],
      [label |-> V0_9, files |-> <<File("sdist", UrlTgz, 2, 0)>>],
      [label |-> V2_0a1, files |-> <<File("bdist_wininst", UrlExe, 3, 5)>>] }

IsExample == Len(info) = 3 /\ { info[i] : i \in 1..3 } = ExampleEntries

\* C1: with include_backports=False the labels Package.releases returns are
\* non-decreasing under versions.compare, each one comparing >= the one
\* returned just before it, whatever the order of the listing; a release
\* left out is lower in version than a kept release that is not later in
\* date; the listing {1.0 @day 1, 0.9 @day 2, 2.0a1 @day 3} with
\* include_unstable=False yields exactly [(1.0, day 1)].
C1_NonDecreasingVersions ==
    (call.op = "releases" /\ ~call.ib) =>
        /\ \A i \in 2..Len(relOut) :
               compare(relOut[i].label, relOut[i - 1].label) >= 0
        /\ \A i \in 1..Len(relOut) :
               \E c \in Candidates(call.iu) : info[c].label = relOut[i].label
        /\ \A c \in Candidates(call.iu) :
               \/ Returned(info[c].label)
               \/ \E i \in 1..Len(relOut) :
                      /\ relOut[i].date <= MinDay(info[c].files)
                      /\ compare(info[c].label, relOut[i].label) < 0
        /\ (IsExample /\ ~call.iu) => relOut = <<[label |-> V1_0, date |-> 1]>>

\* a call without backports that kept two releases and dropped a later, lower one
C1_Witness ==
    /\ call.op = "releases" /\ ~call.ib
    /\ Len(relOut) >= 2
    /\ \E c \in Candidates(call.iu) : ~Returned(info[c].label)

\* C2: for every combination of the two switches the pairs Package.releases
\* returns are in ascending order of date, the date of a pair being the
\* least upload date of that version's files, and two versions of the same
\* date keep the order in which the listing iterates them.
C2_SortedByDateStable ==
    call.op = "releases" =>
        /\ \A i, j \in 1..Len(relOut) :
               i < j => /\ relOut[i].date <= relOut[j].date
                        /\ relOut[i].date = relOut[j].date =>
                               Pos(relOut[i].label) < Pos(relOut[j].label)
        /\ \A i \in 1..Len(relOut) :
               /\ \E c \in 1..Len(info) : info[c].label = relOut[i].label
               /\ info[Pos(relOut[i].label)].files # <<>>
               /\ relOut[i].date = MinDay(info[Pos(relOut[i].label)].files)
        /\ (call.iu /\ call.ib) =>
               \A c \in Candidates(TRUE) : Returned(info[c].label)

\* a result that is in date order against the listing's order, with a tie of
\* dates, and a version whose first file is not its earliest
C2_Witness ==
    /\ call.op = "releases"
    /\ \E i, j \in 1..Len(relOut) :
           i < j /\ Pos(relOut[i].label) > Pos(relOut[j].label)
    /\ \E i, j \in 1..Len(relOut) : i < j /\ relOut[i].date = relOut[j].date
    /\ \E i \in 1..Len(relOut) :
           info[Pos(relOut[i].label)].files[1].upload_time.day # relOut[i].date

(***************************************************************************)
(* Properties of Package.download_url (SpecUrl).                           *)
(***************************************************************************)
Rank(pkgtype) ==
    IF \E k \in 1..Len(PkgTypes) : PkgTypes[k] = pkgtype
    THEN CHOOSE k \in 1..Len(PkgTypes) : PkgTypes[k] = pkgtype
    ELSE 0

\* a file download_url may return: of a ranked kind, its URL ending with a
\* supported extension
Usable(f) ==
    /\ Rank(f.packagetype) > 0
    /\ \E k \in 1..Len(SUPPORTED_FORMATS) : endswith(f.url, SUPPORTED_FORMATS[k].ext)

\* C3: Package.download_url never returns the URL of an artifact of a
\* lower-ranked kind when the version has an artifact of a higher-ranked
\* kind with a supported extension (ranking bdist_wheel, bdist_egg, sdist,
\* bdist_rpm, bdist_deb, bdist_wininst); within the chosen kind it returns
\* the first such artifact in listing order; it returns None exactly when
\* no artifact of a ranked kind has a supported extension.
C3_BestKindFirst ==
    call.op = "download_url" =>
        LET fs == FilesOf(info, call.ver)
            usable == { i \in 1..Len(fs) : Usable(fs[i]) }
        IN  /\ urlOut.some <=> usable # {}
            /\ urlOut.some =>
                   \E i \in usable :
                       /\ fs[i].url = urlOut.val
                       /\ \A j \in usable :
                              /\ Rank(fs[j].packagetype) >= Rank(fs[i].packagetype)
                              /\ fs[j].packagetype = fs[i].packagetype => i <= j

\* the URL returned is not that of the first usable file of the listing
C3_Witness ==
    /\ call.op = "download_url"
    /\ urlOut.some
    /\ LET fs == FilesOf(info, call.ver)
           first == CHOOSE i \in 1..Len(fs) :
                        Usable(fs[i]) /\ \A j \in 1..(i - 1) : ~Usable(fs[j])
       IN  fs[first].url # urlOut.val

(***************************************************************************)
(* Properties of the harvesting pass (SpecHarvest).                        *)
(***************************************************************************)
\* the cache file loaded at the start of the pass has a row for the pair
Cached(name, ver) ==
    \E j \in 1..Len(loaded) : loaded[j].name = name /\ loaded[j].version = ver

\* C4: a (name, version) pair present in the durable cache loaded at the
\* start of a pass is never submitted to the worker pool in that pass.
C4_CachedNeverResubmitted ==
    \A i \in 1..Len(submitted) : ~Cached(submitted[i][1], submitted[i][2])

\* C5: no failure confined to one package or one unit stops the pass: the
\* pass never ends before it has reached its flush (the only way a pass may
\* end other than "done" is inside the flush itself).
C5_NoFailureStopsThePass == pc = "aborted" => exc = "KeyError"

\* the registry offers a file of that version that download_url selects
Downloadable(name, ver) ==
    /\ name \in HNames
    /\ HasVersion(registry[name], ver)
    /\ download_url(registry[name], ver).some

\* C6: a unit whose resolution failed gets no harvest record: no key of the
\* in-memory cache and no row of the flushed cache belongs to a unit for which
\* no downloadable artifact exists, and no worker hands a record to done()
\* after its download returned nothing.
C6_FailedUnitHasNoRecord ==
    /\ \A k \in DOMAIN deps : Downloadable(CellText(deps[k].name), CellText(deps[k].version))
    /\ \A j \in 1..Len(file.rows) : Downloadable(file.rows[j].name, file.rows[j].version)
    /\ \A w \in DOMAIN workers : workers[w].st = "callback" => workers[w].dl.some

\* C7: when retrieving the selected artifact fails with an I/O error, the
\* worker does not raise: download returned None, dependencies returned the
\* empty mapping (the record made of it says so), and no IOError ends the
\* pass.
C7_DownloadIOErrorIsNoResult ==
    \A w \in DOMAIN workers :
        workers[w].io = "ioerror" =>
            /\ workers[w].st = "callback"
            /\ workers[w].dl = None
            /\ workers[w].out.some
            /\ workers[w].out.val.raw_dependencies = StrCell(JsonDumps(EmptyDeps))
            /\ workers[w].out.val.deps = StrCell(<<>>)
            /\ exc # "IOError"

C7_Witness ==
    \E w \in DOMAIN workers :
        /\ workers[w].io = "ioerror"
        /\ workers[w].st = "callback"
        /\ pc = "versions"
        /\ todo # <<>>

\* C8: the cache file is written only by the scheduler's flush, and from the
\* moment the flush starts no unit of work is queued or running, so that no
\* callback writes the in-memory map during or after the write.
C8_FlushOnlyAfterDrain ==
    /\ pc \in {"flush", "done"} => Drained
    /\ file.rows # Began => pc = "done"

C8_Witness ==
    /\ pc = "done"
    /\ file.exists
    /\ Cardinality(merged) >= 2
    /\ Len(submitted) > Cardinality(merged)

\* C9: within one pass every (name, version) key is submitted to the worker
\* pool at most once, whatever catalog the registry lists.
C9_SubmittedAtMostOnce ==
    \A i, j \in 1..Len(submitted) : submitted[i] = submitted[j] => i = j

C11_OneRowPerKey ==
    \A i, j \in 1..Len(file.rows) :
        (file.rows[i].name = file.rows[j].name
            /\ file.rows[i].version = file.rows[j].version) => i = j

\* C13: for every label Package.releases returns, whatever the two switches,
\* download_url(label) is not None: a release without a usable artifact is
\* not in the list.
C13_ReturnedReleasesAreDownloadable ==
    call.op = "releases" =>
        \A i \in 1..Len(relOut) : download_url(info, relOut[i].label).some

(***************************************************************************)
(* Properties of json_path (SpecJson).                                     *)
(***************************************************************************)
\* C18: json_path never raises: a step of the path that is missing, whatever
\* the value reached before it, gives None.
C18_JsonPathNeverRaises == jsonOut.exc # "uncalled" => ~jsonOut.raised

(***************************************************************************)
(* Properties of Package.dependencies (SpecDeps).                          *)
(***************************************************************************)
DepsCalled == depsOut.exc # "uncalled"

\* a constraint without the parentheses that enclose it
Unparen(c) ==
    IF Len(c) >= 2 /\ Head(c) = "(" /\ c[Len(c)] = ")" THEN SubSeq(c, 2, Len(c) - 1)
    ELSE c

\* the name and the raw constraint of a requirement, parentheses stripped
Requirement(text) ==
    LET name == Run(Strip(text), WordToks)
    IN  [name |-> name, spec |-> Unparen(Strip(Drop(Strip(text), Len(name))))]

\* the requirements of the lines "Requires-Dist: ..." of a flat manifest
ManifestRequirements(lines) ==
    { Requirement(Drop(lines[k], 2)) :
        k \in { k \in 1..Len(lines) : Head(lines[k]) = "Requires-Dist" } }

InMapping(r) == \E i \in 1..Len(depsOut.val) : depsOut.val[i] = r

\* C15: for a location ending in .dist-info, without metadata.json every
\* requirement line of METADATA is in the mapping returned, as its name and its
\* constraint without the enclosing parentheses ("numpy (>=1.9.0)" gives
\* numpy: >=1.9.0), and no constraint returned keeps its parentheses.
C15_DistInfoRequirements ==
    (DepsCalled /\ endswith(tree.info_path, <<".dist-info">>)) =>
        /\ (~tree.metadata_json.some /\ tree.METADATA.some) =>
               \A r \in ManifestRequirements(tree.METADATA.val) : InMapping(r)
        /\ \A i \in 1..Len(depsOut.val) : Unparen(depsOut.val[i].spec) = depsOut.val[i].spec

\* the first line of requires.txt that is a section header, or one past the end
FirstHeader(lines) ==
    LET hs == { k \in 1..Len(lines) : Head(lines[k]) = "[" }
    IN  IF hs = {} THEN Len(lines) + 1 ELSE CHOOSE k \in hs : \A h \in hs : k <= h

\* C20: for a location ending in .egg-info, every non-empty line of
\* requires.txt before the first section header yields a dependency of its
\* name (a line "name[extra]>=1.0" included), and every dependency returned
\* comes from such a line.
C20_RequiresTxtLines ==
    (DepsCalled /\ endswith(tree.info_path, <<".egg-info">>) /\ tree.requires_txt.some) =>
        LET lines == tree.requires_txt.val
            before == { k \in 1..(FirstHeader(lines) - 1) : Strip(lines[k]) # <<>> }
        IN  /\ \A k \in before :
                   \E i \in 1..Len(depsOut.val) :
                       depsOut.val[i].name = Requirement(lines[k]).name
            /\ \A i \in 1..Len(depsOut.val) :
                   \E k \in before : depsOut.val[i].name = Requirement(lines[k]).name

\* the raw dependency strings dependencies splits, by the branch it takes
RawDependencies(t) ==
    LET raw == IF endswith(t.info_path, <<".dist-info">>)
               THEN (IF t.metadata_json.some THEN RunRequires(t.metadata_json.val)
                     ELSE <<>>)
               ELSE IF endswith(t.info_path, <<".egg-info">>)
               THEN (IF t.requires_txt.some THEN RequiresLines(t.requires_txt.val)
                     ELSE <<>>)
               ELSE (IF t.setup.some THEN t.setup.val ELSE <<>>)
    IN  {raw[k] : k \in 1..Len(raw)}

\* the longest leading run of name characters of a raw string
LeadingName(text) ==
    LET ends == {n \in 0..Len(text) : \A i \in 1..n : text[i] \in WordToks}
    IN  SubSeq(text, 1, CHOOSE n \in ends : \A m \in ends : m <= n)

\* C21: every key of the mapping returned is the longest leading run of name
\* characters of one raw dependency string and its value the trimmed rest of
\* that string; a raw string without a leading name is discarded, so no key
\* is empty.
C21_KeysAreLeadingNames ==
    DepsCalled =>
        \A i \in 1..Len(depsOut.val) :
            /\ depsOut.val[i].name # <<>>
            /\ \E raw \in RawDependencies(tree) :
                   LET text == Strip(raw)
                       name == LeadingName(text)
                   IN  /\ depsOut.val[i].name = name
                       /\ depsOut.val[i].spec = Strip(Drop(text, Len(name)))

\* C22: get_setup_params is called only when no metadata folder was found;
\* with any of the three folders found, EGG-INFO included, the sandbox is not
\* run and the dependencies are those of the folder's requires.txt or
\* metadata.json; without a result of the introspection the mapping returned
\* is empty and nothing is raised.
C22_SandboxOnlyWithoutMetadata ==
    DepsCalled =>
        /\ sandboxed => tree.info_path = <<>>
        /\ (tree.info_path = <<"EGG-INFO">> /\ tree.requires_txt.some) =>
               depsOut = Return(DictOf(<<>>, SplitAll(RequiresLines(tree.requires_txt.val))))
        /\ (tree.info_path = <<>> /\ ~tree.setup.some) => depsOut = Return(EmptyDeps)

(***************************************************************************)
(* Properties of the network requests (SpecNet).                           *)
(***************************************************************************)
\* C12: every attempt of every request is made with the timeout; a request
\* is given up after a timeout or a connection failure only when all three
\* attempts are made; no request makes more attempts than three.
C12_TransientFailuresAreRetried ==
    /\ reqSt.attempts > 0 => reqSt.timed
    /\ (reqSt.pc = "failed" /\ reqSt.cause \in {"timeout", "connection"}) =>
           reqSt.attempts = Tries
    /\ reqSt.pc # "hung"
    /\ reqSt.attempts <= Tries

(***************************************************************************)
(* Properties of Package._info_path (SpecInfo).                            *)
(***************************************************************************)
\* the name with every run of the separators taken for one underscore: the
\* first character of each run stays, as an underscore, the rest of the run
\* goes
Normalised(name, separators) ==
    LET kept == {i \in 1..Len(name) :
                    name[i] \notin separators \/ i = 1 \/ name[i - 1] \notin separators}
        at(k) == CHOOSE i \in kept : Cardinality({j \in kept : j <= i}) = k
    IN  [k \in 1..Cardinality(kept) |->
            IF name[at(k)] \in separators THEN "_" ELSE name[at(k)]]

\* the path the probing of the three folders comes to when the project is
\* called n in their names
ProbedFor(n) ==
    LET dir == infoIn.extract_dir.val
        dist == PathJoin(dir, n \o <<"-">> \o infoIn.ver \o <<".dist-info">>)
        egg == PathJoin(dir, n \o <<".egg-info">>)
        eggInfo == PathJoin(dir, <<"EGG-INFO">>)
    IN  CASE ~infoIn.extract_dir.some -> None
          [] dist \in infoIn.isdir -> Some(dist)
          [] egg \in infoIn.isdir -> Some(egg)
          [] eggInfo \in infoIn.isdir -> Some(eggInfo)
          [] OTHER -> None

VersionOf(arg) == IF arg = Omitted THEN latest_ver ELSE arg

\* the values download returned, by version
DownloadsOf(ver) ==
    {m \in _cache : m.method = "download" /\ VersionOf(m.arg) = ver}

\* C14 (as stated): download of a .zip, .whl or .egg into a target that
\* holds exactly one directory returns that directory, whether the call
\* extracted the tree or found it extracted; anything else returns the
\* target
C14_ZipLikeCollapse ==
    life.alive =>
        \A ver \in PkgVersions : \A m \in DownloadsOf(ver) :
            m.val.some =>
                LET url == world.art[ver].url.val
                    single == SingleDir(disk[ver].entries)
                    zipLike == \E ext \in {<<".zip">>, <<".whl">>, <<".egg">>} :
                                  endswith(url, ext)
                IN  m.val.val = IF zipLike /\ single.some
                                THEN PathJoin(Target(ver), single.val)
                                ELSE Target(ver)

C17_OneDownloadPerVersion ==
    \A ver \in PkgVersions :
        /\ fetched[ver] <= 1
        /\ \A m1, m2 \in DownloadsOf(ver) : m1.val = m2.val

(***************************************************************************)
(* Properties of the worker threads and their folders (SpecShare).         *)
(***************************************************************************)
\* the thread retrieves into its folder or reads the tree in it
Using(w) == jobs[w].pc \in {"retrieve", "read"}

\* the thread made the folder of its task
Owns(w) == \E i \in 1..Len(jobs[w].dirs) : jobs[w].dirs[i] = FolderOf(jobs[w])

\* C23: two threads at work on different (package, version) never use the
\* same folder, whatever names and labels the registry lists, and the folder
\* a thread made is on disk for as long as that thread reads it.
C23_FoldersAreNotShared ==
    /\ \A w1, w2 \in 1..NWorkers :
           (Using(w1) /\ Using(w2)
               /\ <<jobs[w1].name, jobs[w1].ver>> # <<jobs[w2].name, jobs[w2].ver>>)
               => FolderOf(jobs[w1]) # FolderOf(jobs[w2])
    /\ \A w \in 1..NWorkers :
           (jobs[w].pc = "read" /\ Owns(w)) => FolderOf(jobs[w]) \in folders

(***************************************************************************)
(* Properties of the extraction command of Package.download (SpecFmt).     *)
(***************************************************************************)
\* C24: download never raises its "Unexpected archive format" error: with
\* a url from download_url an extraction command is chosen, and it is the
\* command SUPPORTED_FORMATS registers for the extension the url ends with.
C24_CommandOfTheUrlExtension ==
    cmdOut.called =>
        /\ ~cmdOut.out.raised
        /\ cmdOut.url.some =>
               /\ cmdOut.out.val.some
               /\ \E k \in 1..Len(SUPPORTED_FORMATS) :
                      endswith(cmdOut.url.val, SUPPORTED_FORMATS[k].ext)
               /\ \A k \in 1..Len(SUPPORTED_FORMATS) :
                      endswith(cmdOut.url.val, SUPPORTED_FORMATS[k].ext)
                          => cmdOut.out.val.val = SUPPORTED_FORMATS[k].cmd

\* C24 witness: of a wheel kind file with an unsupported extension and a
\* source archive named by its two-part extension alone, the second is
\* chosen and the tar command selected
C24_Witness ==
    /\ cmdOut.called
    /\ \E i \in 1..Len(info[1].files) : info[1].files[i].url = UrlExe
    /\ cmdOut.url = Some(UrlBare)
    /\ cmdOut.out = Return(Some("untgz"))

=============================================================================
